---- MODULE Spec2Model ----
(***************************************************************************)
(* The alert-and-health lifecycle of the monitoring API server             *)
(* (src/terraform/main.tf, lines 230-656; src/api/server.js is the same    *)
(* file cut short): the relational store (servers, alerts), the Redis      *)
(* summary cache, the Prometheus gauge, the cron health check and the      *)
(* HTTP handlers.  Every await of the code is one step of the model: a      *)
(* store or cache command takes effect atomically, and between two awaits  *)
(* of one handler any other handler may run and time may pass.             *)
(***************************************************************************)
EXTENDS Integers, Sequences, FiniteSets, TLC

\* ---------------------------------------------------------------- bounds
NumServers == 2     \* rows of table servers in the model
NumPasses == 2      \* cron callbacks that may be in flight at once
NumRequests == 2    \* summary requests that may be in flight at once
MaxTicks == 2       \* cron ticks in one run
MaxCalls == 3       \* HTTP requests in one run
MaxAlertId == 3     \* largest alert id a client sends
MaxServerId == 3    \* largest server id a client sends
TimeStep == 20      \* seconds the clock advances in one step
MaxTime == 40       \* the clock stops here

\* ------------------------------------------------------ program constants
CacheTTL == 30      \* redisClient.setEx(cacheKey, 30, ...)
NULL == -1          \* SQL NULL of an integer or timestamp column

\* The seeded servers the model holds: web-server-01 (id 2), which is seeded
\* with an open alert, api-gateway (id 3), which has none, and so on.
Servers == 2..(NumServers + 1)
Passes == 1..NumPasses
Requests == 1..NumRequests
Severities == {"critical", "warning", "info"}

\* req.user as decoded from the bearer token: id and role
Actors == {[id |-> 1, role |-> "operator"], [id |-> 2, role |-> "viewer"]}

VARIABLES
    now,          \* NOW() / Date.now(), seconds
    servers,      \* table servers: id -> row
    alerts,       \* table alerts: row i has id i (SERIAL)
    cache,        \* Redis key dashboard:summary
    activeAlerts, \* Prometheus gauge active_alerts_total, by severity
    pass,         \* the cron callbacks in flight
    req,          \* the summary requests in flight
    resp,         \* the last HTTP response sent
    budget,       \* cron ticks and HTTP requests the run may still take
    hist,         \* history of the run, read by the properties only
    deploy        \* a run of scripts/deploy.sh

prog == <<now, servers, alerts, cache, activeAlerts, pass, req, resp>>
vars == <<prog, budget, hist, deploy>>

\* ------------------------------------------------------------ the store
\* A row of table servers as the handlers use it.
ServerRow(st) ==
    [status |-> st, last_checked |-> NULL, last_restart |-> NULL,
     restart_requested_by |-> NULL]

\* A row of table alerts as INSERT leaves it: the acknowledged columns take
\* their defaults.  by is history: who inserted the row.
AlertRow(sid, sev, who) ==
    [server_id |-> sid, severity |-> sev, acknowledged |-> FALSE,
     acknowledged_by |-> NULL, acknowledged_at |-> NULL, by |-> who]

\* The seeded servers: ('db-prod-01', 'online'), ('web-server-01', 'online'), ...
\* up to the sixth, ('backup-server', 'offline').
SeedServers == [s \in Servers |-> ServerRow(IF s = 6 THEN "offline" ELSE "online")]

\* The seeded alert of the servers in the model: (2, 'warning', 'High memory
\* usage detected'); those of servers 1 and 6 are left out with their servers.
SeedAlerts == << AlertRow(2, "warning", "seed") >>

AlertIds == DOMAIN alerts

OnlineIds == {s \in Servers : servers[s].status = "online"}

\* A slip the count could have: the WHERE acknowledged = false is missing
AlertCountsOfAllRows(tbl) ==
    [sev \in Severities |-> Cardinality({i \in DOMAIN tbl : tbl[i].severity = sev})]

\* SELECT severity, COUNT(*) FROM alerts WHERE acknowledged = false GROUP BY
\* severity, folded into summary.alerts (severities without a row stay 0).
AlertCounts(tbl) ==
    [sev \in Severities |->
        Cardinality({i \in DOMAIN tbl : tbl[i].severity = sev /\ ~tbl[i].acknowledged})]

\* The orders in which a SELECT without ORDER BY may return the ids in S.
RECURSIVE RowOrders(_)
RowOrders(S) ==
    IF S = {} THEN {<< >>}
    ELSE UNION {{<<x>> \o t : t \in RowOrders(S \ {x})} : x \in S}

\* ------------------------------------------------------- the summary cache
\* get_alert_summary() of the schema: COUNT(*) FILTER (WHERE severity = sev
\* AND acknowledged = FALSE) FROM alerts
AlertSummary(tbl, sev) ==
    Cardinality({i \in DOMAIN tbl : tbl[i].severity = sev /\ tbl[i].acknowledged = FALSE})

\* Whether the per-severity counts c are those of the table tbl
Matches(c, tbl) == \A sev \in Severities : c[sev] = AlertSummary(tbl, sev)

\* The summary object; totalServers and alerts are filled by the queries.
NoSummary == [totalServers |-> NULL, alerts |-> [sev \in Severities |-> NULL]]

\* Redis key dashboard:summary when unset.  History: setAt is when it was
\* written, fresh the last instant at which the store held the counts of value.
EmptyCache == [value |-> NoSummary, expires |-> NULL, setAt |-> NULL, fresh |-> NULL]

\* A summary request that is not running.  History: fresh as for the cache.
IdleRequest == [pc |-> "idle", summary |-> NoSummary, fresh |-> NULL]

\* Redis drops the key once its TTL has run out.
Expire(c, t) == IF c.expires # NULL /\ t >= c.expires THEN EmptyCache ELSE c

\* History kept up to date: h holds counts (at h.value or h.summary) that
\* the store holds at instant t.
Refreshed(h, counts, tbl, t) ==
    IF Matches(counts, tbl) THEN [h EXCEPT !.fresh = t] ELSE h

RefreshedCache(c, tbl, t) == Refreshed(c, c.value.alerts, tbl, t)
RefreshedReqs(rq, tbl, t) == [r \in Requests |-> Refreshed(rq[r], rq[r].summary.alerts, tbl, t)]

\* ------------------------------------------------------- the health check
\* A cron callback that is not running; its fields are history once it ends:
\*   probe   what the health check of each server answers in this pass
\*           (Math.random() > 0.1, drawn when the pass starts)
\*   rows    servers.rows still to visit, the head being the current server
\*   start   each server's status when the callback started
\*   seen    each server's status when this pass updated it (NoStatus: not visited)
\*   made    ids of the alerts this pass inserted
NoStatus == "none"

IdlePass ==
    [pc |-> "idle", probe |-> [s \in Servers |-> TRUE], rows |-> << >>,
     start |-> [s \in Servers |-> NoStatus], seen |-> [s \in Servers |-> NoStatus],
     made |-> {}]

Running(p) == pass[p].pc \in {"update", "insert"}

\* node-cron starts the callback at every tick, whether or not the previous
\* one has returned; the model uses the lowest free slot.
FreeSlot(p) == ~Running(p) /\ \A q \in Passes : q < p => Running(q)

\* A slip the SELECT could have: LIMIT 1, the online server of lowest id
SelectedFirstOnly == {s \in OnlineIds : \A t \in OnlineIds : s <= t}

\* WHERE status = $1, ['online']
SelectedIds == OnlineIds

\* isHealthy ? 'online' : 'offline'
NewStatus(isHealthy) == IF isHealthy THEN "online" ELSE "offline"

\* for (const server of servers.rows): on to the next row, or the pass is done
NextRow(q) == [q EXCEPT !.rows = Tail(q.rows),
                        !.pc = IF Len(q.rows) > 1 THEN "update" ELSE "done"]

\* The callback as it starts, with the rows its SELECT returned
Started(pr, rows) ==
    [IdlePass EXCEPT !.pc = IF rows = << >> THEN "done" ELSE "update",
                     !.probe = pr, !.rows = rows,
                     !.start = [s \in Servers |-> servers[s].status]]

\* cron.schedule('*/5 * * * *', async () => { ... }) fires:
\* const servers = await pool.query('SELECT id, ip_address FROM servers WHERE status = $1', ['online'])
Tick(p) ==
    /\ FreeSlot(p)
    /\ \E pr \in [Servers -> BOOLEAN], rows \in RowOrders(SelectedIds) :
          pass' = [pass EXCEPT ![p] = Started(pr, rows)]
    /\ UNCHANGED <<now, servers, alerts, cache, activeAlerts, req, resp>>

\* The SELECT rejects (store unreachable): the catch logs 'Scheduled health
\* check failed' and the callback returns.
TickStoreError(p) ==
    /\ FreeSlot(p)
    /\ \E pr \in [Servers -> BOOLEAN] :
          pass' = [pass EXCEPT ![p] = [Started(pr, << >>) EXCEPT !.pc = "failed"]]
    /\ UNCHANGED <<now, servers, alerts, cache, activeAlerts, req, resp>>

\* UPDATE servers SET last_checked = NOW(), status = $1 WHERE id = $2
SamplerUpdate(p) ==
    /\ pass[p].pc = "update"
    /\ LET server == Head(pass[p].rows)
           isHealthy == pass[p].probe[server]
           q == [pass[p] EXCEPT !.seen[server] = servers[server].status]
       IN /\ servers' = [servers EXCEPT ![server].last_checked = now,
                                        ![server].status = NewStatus(isHealthy)]
          /\ pass' = [pass EXCEPT ![p] = IF isHealthy THEN NextRow(q)
                                         ELSE [q EXCEPT !.pc = "insert"]]
    /\ UNCHANGED <<now, alerts, cache, activeAlerts, req, resp>>

\* INSERT INTO alerts (server_id, severity, message, created_at)
\* VALUES ($1, 'critical', 'Server ... is not responding', NOW())
SamplerInsert(p) ==
    /\ pass[p].pc = "insert"
    /\ LET server == Head(pass[p].rows)
       IN /\ alerts' = Append(alerts, AlertRow(server, "critical", "sampler"))
          /\ pass' = [pass EXCEPT ![p] =
                         NextRow([pass[p] EXCEPT !.made = @ \cup {Len(alerts) + 1}])]
    /\ cache' = RefreshedCache(cache, alerts', now)
    /\ req' = RefreshedReqs(req, alerts', now)
    /\ UNCHANGED <<now, servers, activeAlerts, resp>>

\* The UPDATE or the INSERT rejects: the catch logs and the callback returns,
\* the rows left unvisited.
SamplerStoreError(p) ==
    /\ Running(p)
    /\ pass' = [pass EXCEPT ![p].pc = "failed"]
    /\ UNCHANGED <<now, servers, alerts, cache, activeAlerts, req, resp>>

\* ------------------------------------------------------ the HTTP handlers
\* The last response.  id is the :id of the request, body the summary sent.
\* History: age is how long before the response the store last held the
\* counts of body, held how long the cache entry served had been in the
\* cache (NULL: the body was not served from the cache).
NoResponse ==
    [op |-> "none", status |-> 0, id |-> NULL, body |-> NoSummary,
     age |-> NULL, held |-> NULL]

\* Seconds since instant t (NULL: there was no such instant)
Since(t) == IF t = NULL THEN NULL ELSE now - t

Response(op, status, id) == [NoResponse EXCEPT !.op = op, !.status = status, !.id = id]

\* The routes behind authenticate
Endpoints == {"summary", "alerts", "acknowledge", "servers", "restart"}

\* A slip authenticate could have: the 401 is sent without return and next()
\* is called all the same, so the summary handler starts
UnauthorizedCallsNext(op) ==
    /\ resp' = Response(op, 401, NULL)
    /\ req' = IF op = "summary" THEN [req EXCEPT ![1].pc = "query"] ELSE req
    /\ UNCHANGED <<now, servers, alerts, cache, activeAlerts, pass>>

\* authenticate: no token or jwt.verify throws -> 401, next() is not called
Unauthorized(op) ==
    /\ resp' = Response(op, 401, NULL)
    /\ UNCHANGED <<now, servers, alerts, cache, activeAlerts, pass, req>>

\* A slip the UPDATE could have: acknowledged_at is not set
AcknowledgedWithoutTimestamp(row, user, t) ==
    [row EXCEPT !.acknowledged = TRUE, !.acknowledged_by = user.id]

\* A slip the UPDATE could have: SET acknowledged = NOT acknowledged
AcknowledgedToggled(row, user, t) ==
    [row EXCEPT !.acknowledged = ~row.acknowledged, !.acknowledged_by = user.id,
                !.acknowledged_at = IF row.acknowledged THEN NULL ELSE t]

\* SET acknowledged = true, acknowledged_by = $1, acknowledged_at = NOW()
Acknowledged(row, user, t) ==
    [row EXCEPT !.acknowledged = TRUE, !.acknowledged_by = user.id, !.acknowledged_at = t]

\* UPDATE alerts SET ... WHERE id = $2: the rows with that id, none if there is none
AcknowledgeUpdate(tbl, id, user, t) ==
    [i \in DOMAIN tbl |-> IF i = id THEN Acknowledged(tbl[i], user, t) ELSE tbl[i]]

\* what the handler answers once the UPDATE has returned: res.json({ success: true })
AcknowledgeStatus(tbl, id) == 200

\* A slip the handler could have: the summary key is deleted on the write
AcknowledgeInvalidating(user, id) ==
    /\ alerts' = AcknowledgeUpdate(alerts, id, user, now)
    /\ resp' = Response("acknowledge", AcknowledgeStatus(alerts, id), id)
    /\ cache' = EmptyCache
    /\ req' = RefreshedReqs(req, alerts', now)
    /\ UNCHANGED <<now, servers, activeAlerts, pass>>

\* POST /api/alerts/:id/acknowledge with a valid token
Acknowledge(user, id) ==
    /\ alerts' = AcknowledgeUpdate(alerts, id, user, now)
    /\ resp' = Response("acknowledge", AcknowledgeStatus(alerts, id), id)
    /\ cache' = RefreshedCache(cache, alerts', now)
    /\ req' = RefreshedReqs(req, alerts', now)
    /\ UNCHANGED <<now, servers, activeAlerts, pass>>

\* the UPDATE rejects: catch -> 500
AcknowledgeStoreError(id) ==
    /\ resp' = Response("acknowledge", 500, id)
    /\ UNCHANGED <<now, servers, alerts, cache, activeAlerts, pass, req>>

\* GET /api/alerts with a valid token: SELECT * FROM alerts WHERE acknowledged
\* = false ...; the rows are sent, or the query rejects: catch -> 500
ListAlerts ==
    /\ \E status \in {200, 500} : resp' = Response("alerts", status, NULL)
    /\ UNCHANGED <<now, servers, alerts, cache, activeAlerts, pass, req>>

\* GET /api/servers with a valid token: SELECT s.*, ... FROM servers s LEFT
\* JOIN server_metrics ...; the rows are sent, or the query rejects: catch -> 500
ListServers ==
    /\ \E status \in {200, 500} : resp' = Response("servers", status, NULL)
    /\ UNCHANGED <<now, servers, alerts, cache, activeAlerts, pass, req>>

\* A slip the UPDATE could have: the server is marked as under maintenance
RestartUpdateSettingStatus(tbl, id, user, t) ==
    [s \in DOMAIN tbl |->
        IF s = id THEN [tbl[s] EXCEPT !.last_restart = t, !.restart_requested_by = user.id,
                                      !.status = "maintenance"]
        ELSE tbl[s]]

\* UPDATE servers SET last_restart = NOW(), restart_requested_by = $1 WHERE id = $2
RestartUpdate(tbl, id, user, t) ==
    [s \in DOMAIN tbl |->
        IF s = id THEN [tbl[s] EXCEPT !.last_restart = t, !.restart_requested_by = user.id]
        ELSE tbl[s]]

\* POST /api/servers/:id/restart with a valid token
Restart(user, id) ==
    /\ servers' = RestartUpdate(servers, id, user, now)
    /\ resp' = Response("restart", 200, id)
    /\ UNCHANGED <<now, alerts, cache, activeAlerts, pass, req>>

\* the UPDATE rejects: catch -> 500
RestartStoreError(id) ==
    /\ resp' = Response("restart", 500, id)
    /\ UNCHANGED <<now, servers, alerts, cache, activeAlerts, pass, req>>

\* GET /api/dashboard/summary: the handler's position is req[r].pc
Busy(r) == req[r].pc # "idle"
FreeRequest(r) == ~Busy(r) /\ \A q \in Requests : q < r => Busy(q)

\* A slip the handler could have: the cached value is never used
CacheNeverHit(c) == FALSE

\* if (cached)
CacheHit(c) == c.value # NoSummary

\* const cached = await redisClient.get(cacheKey); if (cached) return res.json(JSON.parse(cached))
SummaryGet(r) ==
    /\ FreeRequest(r)
    /\ IF CacheHit(cache)
       THEN /\ resp' = [Response("summary", 200, NULL) EXCEPT
                           !.body = cache.value, !.age = Since(cache.fresh),
                           !.held = Since(cache.setAt)]
            /\ req' = req
       ELSE /\ req' = [req EXCEPT ![r].pc = "query"]
            /\ resp' = resp
    /\ UNCHANGED <<now, servers, alerts, cache, activeAlerts, pass>>

\* SELECT COUNT(*) FROM servers WHERE status = $1, ['online']
TotalServers(tbl) == Cardinality({s \in DOMAIN tbl : tbl[s].status = "online"})

\* Promise.all: the queries run on their own pool connections, in any order
Queried(q) ==
    IF q.summary.totalServers # NULL /\ q.summary.alerts # NoSummary.alerts
    THEN [q EXCEPT !.pc = "metrics"] ELSE q

SummaryQueryServers(r) ==
    /\ req[r].pc = "query"
    /\ req[r].summary.totalServers = NULL
    /\ req' = [req EXCEPT ![r] = Queried([req[r] EXCEPT !.summary.totalServers = TotalServers(servers)])]
    /\ UNCHANGED <<now, servers, alerts, cache, activeAlerts, pass, resp>>

SummaryQueryAlerts(r) ==
    /\ req[r].pc = "query"
    /\ req[r].summary.alerts = NoSummary.alerts
    /\ LET q == [req[r] EXCEPT !.summary.alerts = AlertCounts(alerts)]
       IN req' = [req EXCEPT ![r] = Queried(Refreshed(q, q.summary.alerts, alerts, now))]
    /\ UNCHANGED <<now, servers, alerts, cache, activeAlerts, pass, resp>>

\* A slip the handler could have: the gauge is set to the count of all alert
\* rows in the store
SummaryBuildCountingAll(r) ==
    /\ req[r].pc = "metrics"
    /\ activeAlerts' = AlertCountsOfAllRows(alerts)
    /\ req' = [req EXCEPT ![r].pc = "set"]
    /\ UNCHANGED <<now, servers, alerts, cache, pass, resp>>

\* The server_metrics query returns; the summary is built and the gauge set:
\* activeAlerts.set({ severity }, summary.alerts[severity])
SummaryBuild(r) ==
    /\ req[r].pc = "metrics"
    /\ activeAlerts' = req[r].summary.alerts
    /\ req' = [req EXCEPT ![r].pc = "set"]
    /\ UNCHANGED <<now, servers, alerts, cache, pass, resp>>

\* A slip the write could have: only the fields the entry lacks are written,
\* so the counts of an entry already there are kept
CacheSetMerged(q, t) ==
    [value |-> [q.summary EXCEPT !.alerts = IF cache.value = NoSummary THEN @
                                            ELSE cache.value.alerts],
     expires |-> t + CacheTTL, setAt |-> t, fresh |-> q.fresh]

\* await redisClient.setEx(cacheKey, 30, JSON.stringify(summary))
CacheSet(q, t) ==
    [value |-> q.summary, expires |-> t + CacheTTL, setAt |-> t, fresh |-> q.fresh]

\* setEx, then res.json(summary)
SummarySet(r) ==
    /\ req[r].pc = "set"
    /\ cache' = CacheSet(req[r], now)
    /\ resp' = [Response("summary", 200, NULL) EXCEPT
                   !.body = req[r].summary, !.age = Since(req[r].fresh)]
    /\ req' = [req EXCEPT ![r] = IdleRequest]
    /\ UNCHANGED <<now, servers, alerts, activeAlerts, pass>>

\* A pool.query of the handler rejects: catch -> 500
SummaryStoreError(r) ==
    /\ req[r].pc \in {"query", "metrics"}
    /\ resp' = Response("summary", 500, NULL)
    /\ req' = [req EXCEPT ![r] = IdleRequest]
    /\ UNCHANGED <<now, servers, alerts, cache, activeAlerts, pass>>

\* redisClient.get rejects (cache unreachable): catch -> 500
SummaryGetError(r) ==
    /\ FreeRequest(r)
    /\ resp' = Response("summary", 500, NULL)
    /\ UNCHANGED <<now, servers, alerts, cache, activeAlerts, pass, req>>

\* redisClient.setEx rejects: catch -> 500
SummarySetError(r) ==
    /\ req[r].pc = "set"
    /\ resp' = Response("summary", 500, NULL)
    /\ req' = [req EXCEPT ![r] = IdleRequest]
    /\ UNCHANGED <<now, servers, alerts, cache, activeAlerts, pass>>

\* ------------------------------------------------------------------ time
AdvanceTime ==
    /\ now + TimeStep <= MaxTime
    /\ now' = now + TimeStep
    /\ cache' = RefreshedCache(Expire(cache, now'), alerts, now')
    /\ req' = RefreshedReqs(req, alerts, now')
    /\ UNCHANGED <<servers, alerts, activeAlerts, pass, resp>>

\* ---------------------------------------------------------------- history
\* The alerts of server s that are open (acknowledged = false)
OpenAlerts(tbl, s) == {i \in DOMAIN tbl : tbl[i].server_id = s /\ ~tbl[i].acknowledged}

\* No cron callback is in flight
Quiet == \A p \in Passes : ~Running(p)

\* A pass is about to insert the alert of server s
InsertPending(s) == \E p \in Passes : pass[p].pc = "insert" /\ Head(pass[p].rows) = s

\*   failRun[s]  how many ticks in a row found s unhealthy, counted from a
\*               tick at which s was online with no open alert, with no
\*               acknowledgment of an alert of s and no store error since
\*   phase[s]    "down" once the health check has taken s from online to
\*               offline, "up" once it has taken it back to online
\*   made[s]     the alerts the health check has inserted for s since it
\*               last took s from online to offline
\*   stage       the step of the scripted scenario the run is at
\*   before      the store's count of open critical alerts before the
\*               scenario's acknowledgment
\*   len         the number of alert rows when the scenario's last tick fired
\*   denied      the last HTTP request carried no valid bearer token
\*   retry[p]    when the pass in slot p started, a pass that had failed
\*               was the last one of its slot
NoHistory ==
    [failRun |-> [s \in Servers |-> 0], phase |-> [s \in Servers |-> "none"],
     made |-> [s \in Servers |-> 0], stage |-> 0, before |-> 0, len |-> 0,
     denied |-> FALSE, retry |-> [p \in Passes |-> FALSE]]

\* after a request without a valid token, and after one with a valid token
Denied(h) == [h EXCEPT !.denied = TRUE]
Admitted(h) == [h EXCEPT !.denied = FALSE]

AfterTick(h, pr) ==
    [h EXCEPT !.failRun = [s \in Servers |->
        IF pr[s] THEN 0
        ELSE IF h.failRun[s] > 0 THEN h.failRun[s] + 1
        ELSE IF servers[s].status = "online" /\ OpenAlerts(alerts, s) = {} THEN 1
        ELSE 0]]

\* A pass has ended in the catch of the callback
SomeFailed == \E q \in Passes : pass[q].pc = "failed"

\* after the tick that started the pass in slot p
AfterStart(h, p) == [h EXCEPT !.retry[p] = SomeFailed]

AfterStoreError(h) == [h EXCEPT !.failRun = [s \in Servers |-> 0]]

AfterAcknowledge(h, id) ==
    IF id \in AlertIds THEN [h EXCEPT !.failRun[alerts[id].server_id] = 0] ELSE h

\* after the UPDATE of server s, whose status was old and is new
AfterUpdate(h, s, old, new) ==
    IF old = "online" /\ new = "offline"
    THEN [h EXCEPT !.phase[s] = "down", !.made[s] = 0]
    ELSE IF old = "offline" /\ new = "online" /\ h.phase[s] = "down"
    THEN [h EXCEPT !.phase[s] = "up"]
    ELSE h

\* after the INSERT of an alert of server s
AfterInsert(h, s) == IF h.phase[s] = "none" THEN h ELSE [h EXCEPT !.made[s] = @ + 1]

\* ------------------------------------------------------ scripts/deploy.sh
\* MAX_RETRIES=30 of run_migrations
MAX_RETRIES == 30

\* The functions main calls, in its order, "notify" being the Slack
\* notification main sends itself, and the commands of each that can end the
\* script (docker-compose, docker run, git, psql, curl ...).
Functions ==
    << "check_prerequisites", "backup_current_state", "update_code", "deploy_services",
       "run_migrations", "run_smoke_tests", "cleanup", "notify" >>

Commands(fn) ==
    CASE fn = "check_prerequisites" -> << "command_docker", "command_compose" >>
      [] fn = "backup_current_state" ->
            << "mkdir", "tar_postgres", "tar_grafana", "tar_prometheus", "tar_config", "pg_dump" >>
      [] fn = "update_code" -> << "git_pull", "compose_pull" >>
      [] fn = "deploy_services" -> << "compose_down", "compose_up", "curl_health", "curl_api_health" >>
      [] fn = "run_migrations" -> << "pg_isready", "psql" >>
      [] fn = "run_smoke_tests" -> << "curl_tests" >>
      [] fn = "cleanup" -> << "container_prune", "image_prune", "volume_prune" >>
      [] fn = "notify" -> << "curl_slack" >>

\* How the script takes a command's non-zero status:
\*   "error"    the command is the condition of an if whose branch calls error()
\*   "retry"    pg_isready, the condition of the if in the retry loop
\*   "ignored"  followed by || true, or the condition of an if that only warns
\*   "errexit"  a plain command, under set -e
OnFailure(c) ==
    CASE c \in {"command_docker", "command_compose", "curl_health", "curl_api_health"} -> "error"
      [] c = "pg_isready" -> "retry"
      [] c \in {"tar_config", "curl_tests"} -> "ignored"
      [] OTHER -> "errexit"

\* The script when it is not running, and when main starts: git says whether
\* .git exists, migration whether db/migrations/latest.sql does, slack
\* whether SLACK_WEBHOOK is set.  History: failed is the command that ended
\* the script, restored whether rollback restored the postgres volume.
IdleDeploy ==
    [fn |-> 0, cmd |-> 0, git |-> FALSE, migration |-> FALSE, slack |-> FALSE,
     trap |-> FALSE, services |-> "old", volume |-> "current", backup |-> FALSE,
     retries |-> 0, exit |-> NULL, failed |-> "none", restored |-> FALSE]

\* main: trap rollback ERR, then the first function
StartDeploy(git, migration, slack) ==
    [IdleDeploy EXCEPT !.fn = 1, !.cmd = 1, !.git = git, !.migration = migration,
                       !.slack = slack, !.trap = TRUE]

Deploying(d) == d.fn # 0 /\ d.exit = NULL

\* The command the script is at
Command(d) == Commands(Functions[d.fn])[d.cmd]

\* if [ -d ".git" ], if [ -f "db/migrations/latest.sql" ], if [ -n "$SLACK_WEBHOOK" ]
Skipped(d, c) ==
    \/ c = "git_pull" /\ ~d.git
    \/ c = "psql" /\ ~d.migration
    \/ c = "curl_slack" /\ ~d.slack

\* exit with status n
Exit(d, n) == [d EXCEPT !.exit = n]

\* error(): echo ... | tee -a "$LOG_FILE"; exit 1
Error(d) == Exit(d, 1)

\* rollback(): its first statement calls error, which exits; the statements
\* after it are docker-compose down, the restore of postgres_data if the
\* backup file exists, docker-compose up -d and exit 1.
Rollback(d) ==
    LET e == Error(d)
    IN IF e.exit # NULL THEN e
       ELSE Exit([e EXCEPT !.services = "restarted",
                           !.volume = IF e.backup THEN "restored" ELSE e.volume,
                           !.restored = e.backup], 1)

\* A plain command fails under set -e.  The ERR trap is set in main and,
\* errtrace being off, is not inherited by the functions main calls: it runs
\* for a command of main itself only (the Slack curl).
ErrExit(d, c) ==
    IF d.trap /\ Functions[d.fn] = "notify" THEN Rollback(d) ELSE Exit(d, 1)

\* What a command that succeeds does to the services and the volume
Effect(d, c) ==
    CASE c = "tar_postgres" -> [d EXCEPT !.backup = TRUE]
      [] c = "compose_down" -> [d EXCEPT !.services = "down"]
      [] c = "compose_up" -> [d EXCEPT !.services = "new"]
      [] c = "psql" -> [d EXCEPT !.volume = "migrated"]
      [] OTHER -> d

\* On to the next command, the next function, or the end of main (exit 0)
Advance(d) ==
    IF d.cmd < Len(Commands(Functions[d.fn])) THEN [d EXCEPT !.cmd = @ + 1]
    ELSE IF d.fn < Len(Functions) THEN [d EXCEPT !.fn = @ + 1, !.cmd = 1]
    ELSE Exit(d, 0)

\* The command the script is at returns with status 0 (ok) or not
Returned(d, ok) ==
    LET c == Command(d)
        f == [d EXCEPT !.failed = c]
    IN IF ok \/ OnFailure(c) = "ignored" THEN Advance(IF ok THEN Effect(d, c) ELSE d)
       ELSE IF OnFailure(c) = "error" THEN Error(f)
       ELSE IF OnFailure(c) = "retry"
            THEN IF d.retries + 1 = MAX_RETRIES THEN Error(f)
                 ELSE [d EXCEPT !.retries = @ + 1]
       ELSE ErrExit(f, c)

\* The script runs its next command, or passes over it
RunCommand ==
    /\ Deploying(deploy)
    /\ IF Skipped(deploy, Command(deploy)) THEN deploy' = Advance(deploy)
       ELSE \E ok \in BOOLEAN : deploy' = Returned(deploy, ok)
    /\ UNCHANGED <<prog, budget, hist>>

\* ------------------------------------------------------- the specification
\* A run takes one of these workloads: <<cron ticks, HTTP requests>>.
Workloads == {<<MaxTicks, 0>>, <<MaxTicks - 1, MaxCalls - 1>>, <<0, MaxCalls>>}

CanTick == budget[1] > 0
CanCall == budget[2] > 0
SpendTick == budget' = <<budget[1] - 1, budget[2]>> /\ UNCHANGED deploy
SpendCall == budget' = <<budget[1], budget[2] - 1>> /\ UNCHANGED deploy

Init ==
    /\ now = 0
    /\ servers = SeedServers
    /\ alerts = SeedAlerts
    /\ cache = EmptyCache
    /\ activeAlerts = [sev \in Severities |-> 0]
    /\ pass = [p \in Passes |-> IdlePass]
    /\ req = [r \in Requests |-> IdleRequest]
    /\ resp = NoResponse
    /\ budget \in Workloads
    /\ hist = NoHistory
    /\ deploy = IdleDeploy

Next ==
    \/ \E p \in Passes :
          /\ CanTick /\ Tick(p) /\ SpendTick
          /\ hist' = AfterStart(AfterTick(hist, pass'[p].probe), p)
    \/ \E p \in Passes :
          CanTick /\ TickStoreError(p) /\ SpendTick /\ hist' = AfterStoreError(hist)
    \/ \E p \in Passes :
          /\ SamplerUpdate(p) /\ UNCHANGED <<budget, deploy>>
          /\ LET s == Head(pass[p].rows)
             IN hist' = AfterUpdate(hist, s, servers[s].status, servers'[s].status)
    \/ \E p \in Passes :
          /\ SamplerInsert(p) /\ UNCHANGED <<budget, deploy>>
          /\ hist' = AfterInsert(hist, Head(pass[p].rows))
    \/ \E p \in Passes :
          SamplerStoreError(p) /\ hist' = AfterStoreError(hist) /\ UNCHANGED <<budget, deploy>>
    \/ \E op \in Endpoints :
          CanCall /\ Unauthorized(op) /\ SpendCall /\ hist' = Denied(hist)
    \/ CanCall /\ ListAlerts /\ SpendCall /\ hist' = Admitted(hist)
    \/ CanCall /\ ListServers /\ SpendCall /\ hist' = Admitted(hist)
    \/ \E user \in Actors, id \in 1..MaxAlertId :
          CanCall /\ Acknowledge(user, id) /\ SpendCall /\ hist' = Admitted(AfterAcknowledge(hist, id))
    \/ \E id \in 1..MaxAlertId :
          CanCall /\ AcknowledgeStoreError(id) /\ SpendCall /\ hist' = Admitted(hist)
    \/ \E user \in Actors, id \in 1..MaxServerId :
          CanCall /\ Restart(user, id) /\ SpendCall /\ hist' = Admitted(hist)
    \/ \E id \in 1..MaxServerId :
          CanCall /\ RestartStoreError(id) /\ SpendCall /\ hist' = Admitted(hist)
    \/ \E r \in Requests : CanCall /\ SummaryGet(r) /\ SpendCall /\ hist' = Admitted(hist)
    \/ \E r \in Requests : CanCall /\ SummaryGetError(r) /\ SpendCall /\ hist' = Admitted(hist)
    \/ \E r \in Requests : SummaryQueryServers(r) /\ UNCHANGED <<budget, hist, deploy>>
    \/ \E r \in Requests : SummaryQueryAlerts(r) /\ UNCHANGED <<budget, hist, deploy>>
    \/ \E r \in Requests : SummaryBuild(r) /\ UNCHANGED <<budget, hist, deploy>>
    \/ \E r \in Requests : SummarySet(r) /\ UNCHANGED <<budget, hist, deploy>>
    \/ \E r \in Requests : SummarySetError(r) /\ UNCHANGED <<budget, hist, deploy>>
    \/ \E r \in Requests : SummaryStoreError(r) /\ UNCHANGED <<budget, hist, deploy>>
    \/ AdvanceTime /\ UNCHANGED <<budget, hist, deploy>>

Spec == Init /\ [][Next]_vars

\* ----------------------------------------------------- the scripted scenario
\* The server of the scenario: api-gateway, seeded online and without alert
ScenarioServer == 3

\* The critical alerts of server s
CriticalAlerts(tbl, s) ==
    {i \in DOMAIN tbl : tbl[i].server_id = s /\ tbl[i].severity = "critical"}

SummaryIdle == \A r \in Requests : ~Busy(r)

\* The scenario of the specification, one tick after the other and the
\* store and the cache reachable: three ticks find ScenarioServer unhealthy
\* (stages 1..3), an operator acknowledges its alert (4), a summary is
\* requested (5), a tick finds the server healthy (6).  Time passes freely.
ScenarioInit ==
    /\ now = 0
    /\ servers = SeedServers
    /\ alerts = SeedAlerts
    /\ cache = EmptyCache
    /\ activeAlerts = [sev \in Severities |-> 0]
    /\ pass = [p \in Passes |-> IdlePass]
    /\ req = [r \in Requests |-> IdleRequest]
    /\ resp = NoResponse
    /\ budget = <<0, 0>>
    /\ hist = NoHistory
    /\ deploy = IdleDeploy

ScenarioNext ==
    \/ \E p \in Passes :
          /\ hist.stage < 3 /\ Quiet
          /\ Tick(p) /\ ~pass'[p].probe[ScenarioServer]
          /\ hist' = [AfterTick(hist, pass'[p].probe) EXCEPT !.stage = @ + 1]
          /\ UNCHANGED <<budget, deploy>>
    \/ \E p \in Passes :
          /\ SamplerUpdate(p) /\ UNCHANGED <<budget, deploy>>
          /\ LET s == Head(pass[p].rows)
             IN hist' = AfterUpdate(hist, s, servers[s].status, servers'[s].status)
    \/ \E p \in Passes :
          /\ SamplerInsert(p) /\ UNCHANGED <<budget, deploy>>
          /\ hist' = AfterInsert(hist, Head(pass[p].rows))
    \/ \E user \in Actors, id \in CriticalAlerts(alerts, ScenarioServer) :
          /\ hist.stage = 3 /\ Quiet /\ user.role = "operator"
          /\ Acknowledge(user, id)
          /\ hist' = [AfterAcknowledge(hist, id) EXCEPT
                         !.stage = 4, !.before = AlertSummary(alerts, "critical")]
          /\ UNCHANGED <<budget, deploy>>
    \/ \E r \in Requests :
          /\ hist.stage = 4
          /\ SummaryGet(r)
          /\ hist' = [hist EXCEPT !.stage = 5]
          /\ UNCHANGED <<budget, deploy>>
    \/ \E r \in Requests : SummaryQueryServers(r) /\ UNCHANGED <<budget, hist, deploy>>
    \/ \E r \in Requests : SummaryQueryAlerts(r) /\ UNCHANGED <<budget, hist, deploy>>
    \/ \E r \in Requests : SummaryBuild(r) /\ UNCHANGED <<budget, hist, deploy>>
    \/ \E r \in Requests : SummarySet(r) /\ UNCHANGED <<budget, hist, deploy>>
    \/ \E p \in Passes :
          /\ hist.stage = 5 /\ SummaryIdle /\ Quiet
          /\ Tick(p) /\ pass'[p].probe[ScenarioServer]
          /\ hist' = [AfterTick(hist, pass'[p].probe) EXCEPT
                         !.stage = 6, !.len = Len(alerts)]
          /\ UNCHANGED <<budget, deploy>>
    \/ AdvanceTime /\ UNCHANGED <<budget, hist, deploy>>

ScenarioSpec == ScenarioInit /\ [][ScenarioNext]_vars

\* ------------------------------------------------------- a deployment run
\* One run of deploy.sh as root with an environment file, from the start of
\* main; the API server is left aside.
DeployInit ==
    /\ now = 0
    /\ servers = SeedServers
    /\ alerts = SeedAlerts
    /\ cache = EmptyCache
    /\ activeAlerts = [sev \in Severities |-> 0]
    /\ pass = [p \in Passes |-> IdlePass]
    /\ req = [r \in Requests |-> IdleRequest]
    /\ resp = NoResponse
    /\ budget = <<0, 0>>
    /\ hist = NoHistory
    /\ \E git, migration, slack \in BOOLEAN : deploy = StartDeploy(git, migration, slack)

DeployNext == RunCommand

DeploySpec == DeployInit /\ [][DeployNext]_vars

\* =================================================================== claims
\* C1: after N >= 1 consecutive ticks that find server S unhealthy, counted
\* from S online with no open alert and with no acknowledgment in between,
\* exactly one open alert exists for S (once the passes have returned).
C1_OneOpenAlertAfterFailedTicks ==
    \A s \in Servers :
        (hist.failRun[s] >= 1 /\ Quiet) => Cardinality(OpenAlerts(alerts, s)) = 1

\* C2: among the alerts the health check created there is at most one open
\* alert per (server, source, severity), also when two passes overlap.
C2_AtMostOneOpenSamplerAlert ==
    \A i, j \in AlertIds :
        ( /\ alerts[i].by = "sampler" /\ alerts[j].by = "sampler"
          /\ ~alerts[i].acknowledged /\ ~alerts[j].acknowledged
          /\ alerts[i].server_id = alerts[j].server_id
          /\ alerts[i].severity = alerts[j].severity ) => i = j

\* A step in which no summary request starts or moves on
SameRequests == \A r \in Requests : req'[r].pc = req[r].pc

\* A step that answers an authenticated acknowledge of alert id i, the store
\* reachable
AcknowledgeStep(i) ==
    /\ budget'[2] < budget[2] /\ SameRequests
    /\ resp'.op = "acknowledge" /\ resp'.id = i /\ resp'.status \notin {401, 500}

\* C3: acknowledging an alert that is already acknowledged, by the same or
\* another actor, answers success and leaves the alert as the first
\* acknowledgment left it.
C3_AcknowledgeIdempotent ==
    [][\A i \in AlertIds :
          (AcknowledgeStep(i) /\ alerts[i].acknowledged)
              => (resp'.status = 200 /\ alerts'[i] = alerts[i])]_vars

\* C4: for every alert row, acknowledged = true iff acknowledged_at is set.
C4_AcknowledgedIffTimestamp ==
    \A i \in AlertIds : alerts[i].acknowledged <=> alerts[i].acknowledged_at # NULL

\* C4 witness: an alert the health check inserted has been acknowledged
\* while a seeded one is still open.
C4_Witness ==
    /\ \E i \in AlertIds : alerts[i].by = "sampler" /\ alerts[i].acknowledged
                           /\ alerts[i].acknowledged_at # NULL
    /\ \E i \in AlertIds : alerts[i].by = "seed" /\ ~alerts[i].acknowledged

\* C5 as claimed: the counts of every summary response are counts the store
\* held at some instant no more than one TTL before the response.
C5_CountsAtMostOneTTLOld ==
    (resp.op = "summary" /\ resp.status = 200)
        => (resp.age # NULL /\ resp.age <= CacheTTL)

\* C5 as amended: the counts of every summary response are counts the store
\* held when the request that computed them queried it or later, and a body
\* served from the cache was written to the cache less than one TTL before
\* the response.
C5_CountsFromStoreCacheWithinTTL ==
    (resp.op = "summary" /\ resp.status = 200)
        => /\ resp.age # NULL /\ resp.age >= 0
           /\ resp.held # NULL => (resp.held >= 0 /\ resp.held < CacheTTL)

\* C5 witness: a response served from the cache whose counts the store no
\* longer holds.
C5_Witness ==
    /\ resp.op = "summary" /\ resp.status = 200 /\ resp.held # NULL /\ resp.held > 0
    /\ ~Matches(resp.body.alerts, alerts)

\* A step in which pass p returns without a store error
PassCompletes(p) == pass[p].pc # "done" /\ pass'[p].pc = "done"

\* C6: in the scenario, after the third unhealthy tick the server is offline
\* with exactly one critical alert; after the acknowledgment the summary
\* shows one critical alert less; after the healthy tick the server is
\* online and no alert has been added.
C6_Scenario ==
    /\ (hist.stage = 3 /\ Quiet)
          => /\ servers[ScenarioServer].status = "offline"
             /\ Cardinality(CriticalAlerts(alerts, ScenarioServer)) = 1
    /\ (hist.stage = 5 /\ SummaryIdle)
          => /\ resp.op = "summary" /\ resp.status = 200
             /\ resp.body.alerts["critical"] = hist.before - 1
    /\ (hist.stage = 6 /\ Quiet)
          => /\ servers[ScenarioServer].status = "online"
             /\ Len(alerts) = hist.len

\* C7: a server that is offline when a pass starts and whose health check in
\* that pass is healthy is online when the pass completes.
C7_OfflineHealthyBecomesOnline ==
    [][\A p \in Passes, s \in Servers :
          (PassCompletes(p) /\ pass'[p].start[s] = "offline" /\ pass'[p].probe[s])
              => servers'[s].status = "online"]_vars

\* C8: a status history online -> offline -> online made by the health
\* check has created exactly one alert for that server.
C8_OneAlertPerFailureAndRecovery ==
    \A s \in Servers :
        (hist.phase[s] = "up" /\ ~InsertPending(s)) => hist.made[s] = 1

\* C9: a server that is online when a pass checks it and whose check is
\* unhealthy is offline when the pass completes, and the pass has created a
\* critical alert for it, inserted unacknowledged; a healthy check of an
\* online server creates no alert and leaves the status online.
C9_UnhealthyOnlineGoesOfflineWithAlert ==
    [][\A p \in Passes, s \in Servers :
          /\ (PassCompletes(p) /\ pass'[p].seen[s] = "online" /\ ~pass'[p].probe[s])
                => /\ servers'[s].status = "offline"
                   /\ \E id \in pass'[p].made :
                         /\ alerts'[id].server_id = s
                         /\ alerts'[id].severity = "critical"
                         /\ (alerts'[id].acknowledged => alerts'[id].acknowledged_by # NULL)
          /\ (PassCompletes(p) /\ pass'[p].seen[s] = "online" /\ pass'[p].probe[s])
                => \A id \in pass'[p].made : alerts'[id].server_id # s
          /\ ( /\ pass[p].pc = "update" /\ pass'[p].pc # "failed"
               /\ pass'[p] # pass[p] /\ Head(pass[p].rows) = s
               /\ servers[s].status = "online" /\ pass[p].probe[s] )
                => (servers'[s].status = "online" /\ alerts' = alerts)]_vars

\* C10: acknowledging an id that is not in the store answers 404 and
\* leaves the alert rows unchanged.
C10_UnknownIdIsNotFound ==
    [][\A i \in 1..MaxAlertId :
          (AcknowledgeStep(i) /\ i \notin AlertIds)
              => (resp'.status = 404 /\ alerts' = alerts)]_vars

\* A step that answers an authenticated restart request for server id i, the
\* store reachable
RestartStep(i) ==
    /\ budget'[2] < budget[2] /\ SameRequests
    /\ resp'.op = "restart" /\ resp'.id = i /\ resp'.status \notin {401, 500}

\* C11: a write request (acknowledge, restart) of an actor whose role is
\* viewer is answered 403 and modifies no alert row and no server row.
C11_ViewerIsForbidden ==
    [][\A user \in Actors :
          user.role = "viewer" =>
              /\ \A i \in 1..MaxAlertId :
                    (AcknowledgeStep(i) /\ Acknowledge(user, i))
                        => (resp'.status = 403 /\ alerts' = alerts /\ servers' = servers)
              /\ \A i \in 1..MaxServerId :
                    (RestartStep(i) /\ Restart(user, i))
                        => (resp'.status = 403 /\ alerts' = alerts /\ servers' = servers)]_vars

\* A step that takes a request without a valid bearer token
UnauthorizedStep == budget'[2] < budget[2] /\ hist'.denied

\* C12: a request without a valid bearer token is answered 401 by every
\* route and its handler does not run: the store, the cache and the gauge
\* are unchanged and no summary request is started or moved.
C12_UnauthorizedRunsNoHandler ==
    [][UnauthorizedStep =>
          /\ resp'.status = 401 /\ resp'.op \in Endpoints /\ resp'.body = NoSummary
          /\ UNCHANGED <<servers, alerts, cache, activeAlerts, req, pass>>]_vars

\* C12 witness: a summary request without a valid token was answered 401
\* while the cache held an entry and another summary request was in flight.
C12_Witness ==
    /\ hist.denied /\ resp.op = "summary" /\ resp.status = 401
    /\ cache.value # NoSummary
    /\ \E r \in Requests : Busy(r)

\* A step in which an authenticated summary request arrives and takes slot r,
\* the cache reachable: it is answered at once or goes on to query the store
SummaryArrives(r) ==
    /\ budget'[2] < budget[2] /\ ~hist'.denied
    /\ FreeRequest(r)
    /\ \/ req'[r].pc = "query"
       \/ req' = req /\ resp'.op = "summary" /\ resp'.status = 200

\* A step in which summary request r, having computed its summary, answers 200
SummaryAnswers(r) == req[r].pc = "set" /\ req'[r].pc = "idle" /\ resp'.status = 200

\* C13: a summary request that finds an entry in the cache (which is then
\* unexpired) is answered with exactly that entry and does not query the
\* store; one that finds none recomputes the summary from the store, writes
\* it to the cache with a TTL of 30 seconds and answers with that summary.
C13_CacheAside ==
    [][\A r \in Requests :
          /\ SummaryArrives(r) =>
                IF cache.value # NoSummary
                THEN /\ now < cache.expires
                     /\ resp'.op = "summary" /\ resp'.status = 200
                     /\ resp'.body = cache.value
                     /\ req' = req /\ cache'.value = cache.value
                ELSE req'[r].pc = "query" /\ resp' = resp
          /\ SummaryAnswers(r) =>
                /\ req[r].fresh # NULL /\ req[r].summary.totalServers # NULL
                /\ resp'.body = req[r].summary
                /\ cache'.value = req[r].summary
                /\ cache'.expires = now + CacheTTL]_vars

\* C13 witness: a request was served the entry written one time step
\* earlier, which still is in the cache, and an alert has been acknowledged.
C13_Witness ==
    /\ resp.op = "summary" /\ resp.status = 200 /\ resp.held = TimeStep
    /\ resp.body = cache.value
    /\ \E i \in AlertIds : alerts[i].acknowledged

\* Summary request r runs while another one is in flight
Overlaps(r) == Busy(r) /\ \E q \in Requests \ {r} : Busy(q)

\* What summary request r does next is possible now, whatever the others do
CanProceed(r) ==
    /\ req[r].pc = "query" =>
          ENABLED (SummaryQueryServers(r) \/ SummaryQueryAlerts(r))
    /\ req[r].pc = "metrics" => ENABLED SummaryBuild(r)
    /\ req[r].pc = "set" => ENABLED SummarySet(r)

\* C14: when summary requests overlap on a cache miss none of them waits for
\* another; each one that answers 200 answers the summary it computed from
\* the store itself and leaves the others as they are, and the cache entry
\* is only ever replaced by the whole summary of one request.
C14_ConcurrentRecompute ==
    /\ [](\A r \in Requests : Overlaps(r) => CanProceed(r))
    /\ [][\A r \in Requests :
             /\ (Overlaps(r) /\ SummaryAnswers(r)) =>
                   /\ req[r].fresh # NULL
                   /\ resp'.body = req[r].summary
                   /\ \A q \in Requests \ {r} :
                         req'[q].pc = req[q].pc /\ req'[q].summary = req[q].summary
             /\ (cache'.value # cache.value /\ cache'.value # NoSummary) =>
                   \E q \in Requests : req[q].pc = "set" /\ cache'.value = req[q].summary]_vars

\* C14 witness: of two requests that overlapped on a miss the first has
\* answered and written its summary; the second holds another summary, which
\* it is about to write.
C14_Witness ==
    /\ req[1].pc = "idle" /\ req[2].pc = "set"
    /\ resp.op = "summary" /\ resp.status = 200 /\ resp.held = NULL
    /\ cache.value = resp.body
    /\ cache.value # req[2].summary

\* C15: the cached summary (its value and its expiry) changes only when a
\* summary request that missed the cache writes its summary, or when the TTL
\* runs out; acknowledge, restart and the health check leave it as it is,
\* whatever they write to the store.
C15_CacheChangedOnlyBySetOrExpiry ==
    [][(cache'.value # cache.value \/ cache'.expires # cache.expires) =>
          \/ \E r \in Requests :
                /\ req[r].pc = "set" /\ req'[r].pc = "idle"
                /\ cache'.value = req[r].summary /\ cache'.expires = now + CacheTTL
          \/ /\ now' > now /\ cache.expires # NULL /\ now' >= cache.expires
             /\ cache'.value = NoSummary /\ cache'.expires = NULL]_vars

\* C15 witness: the cache holds a summary whose server count and alert
\* counts the store no longer holds, after the health check took a server
\* offline and inserted its alert.
C15_Witness ==
    /\ cache.value # NoSummary /\ now < cache.expires
    /\ cache.value.totalServers # TotalServers(servers)
    /\ ~Matches(cache.value.alerts, alerts)
    /\ \E i \in AlertIds : alerts[i].by = "sampler"

\* A step in which a pass of the health check updates the row of server s
SamplerStep(s) ==
    \E p \in Passes :
        pass[p].pc = "update" /\ Head(pass[p].rows) = s /\ pass'[p].pc # "failed"
                              /\ pass'[p] # pass[p]

\* C16: status and last_checked of a server change only in a step of the
\* health check, last_restart and restart_requested_by only in the restart
\* handler; a restart request sets last_restart and restart_requested_by of
\* the server addressed and leaves its status and last_checked, every other
\* server and every alert as they are; no server row is ever deleted.
C16_ServerFrame ==
    [][/\ DOMAIN servers' = DOMAIN servers
       /\ \A s \in Servers :
             /\ ( \/ servers'[s].status # servers[s].status
                  \/ servers'[s].last_checked # servers[s].last_checked )
                   => /\ SamplerStep(s)
                      /\ servers'[s].last_restart = servers[s].last_restart
                      /\ servers'[s].restart_requested_by = servers[s].restart_requested_by
             /\ ( \/ servers'[s].last_restart # servers[s].last_restart
                  \/ servers'[s].restart_requested_by # servers[s].restart_requested_by )
                   => RestartStep(s)
       /\ \A i \in 1..MaxServerId :
             RestartStep(i) =>
                /\ alerts' = alerts
                /\ \A s \in Servers \ {i} : servers'[s] = servers[s]
                /\ i \in Servers =>
                      /\ servers'[i].last_restart = now
                      /\ \E user \in Actors : servers'[i].restart_requested_by = user.id
                      /\ servers'[i].status = servers[i].status
                      /\ servers'[i].last_checked = servers[i].last_checked]_vars

\* C16 witness: a restart was requested for a server the health check has
\* taken offline, and none for the other server.
C16_Witness ==
    \E s, t \in Servers :
        /\ servers[s].status = "offline" /\ servers[s].last_checked # NULL
        /\ servers[s].last_restart # NULL /\ servers[s].restart_requested_by # NULL
        /\ servers[t].last_restart = NULL
        /\ resp.op = "restart" /\ resp.id = s /\ resp.status = 200

\* C17: when a store write for one server of a pass fails, the pass still
\* checks every server that comes after it: once the pass has ended, each of
\* the rows after the failing one (the head of rows) has been visited.
C17_FailureIsolatedPerServer ==
    \A p \in Passes :
        (pass[p].pc = "failed" /\ pass[p].rows # << >>) =>
            \A k \in 2..Len(pass[p].rows) : pass[p].seen[pass[p].rows[k]] # NoStatus

\* C18: in no state has the health check set a server to offline without
\* the critical alert of that failure existing, whether a reader looks
\* between the two writes or the store fails between them.
C18_OfflineImpliesAlert ==
    \A s \in Servers :
        (hist.phase[s] = "down" /\ servers[s].status = "offline") =>
            /\ hist.made[s] >= 1
            /\ \E i \in CriticalAlerts(alerts, s) : alerts[i].by = "sampler"

\* A step in which a tick starts the pass in slot p and its SELECT returns
TickStarts(p) ==
    /\ budget'[1] < budget[1]
    /\ pass'[p] # pass[p] /\ pass'[p].pc # "failed"

\* C19: a pass that failed does not stop the health check: the callback has
\* returned, the next tick starts a pass, and that pass, the store reachable,
\* selects every online server and has visited each of them when it completes.
C19_FailedPassIsRetried ==
    /\ []((SomeFailed /\ CanTick) => ENABLED (\E p \in Passes : Tick(p)))
    /\ [][\A p \in Passes :
             /\ (SomeFailed /\ TickStarts(p)) =>
                   /\ hist'.retry[p]
                   /\ {pass'[p].rows[k] : k \in 1..Len(pass'[p].rows)} = OnlineIds
                   /\ Len(pass'[p].rows) = Cardinality(OnlineIds)
             /\ (hist.retry[p] /\ PassCompletes(p)) =>
                   \A s \in Servers :
                       pass'[p].start[s] = "online" => pass'[p].seen[s] # NoStatus]_vars

\* C19 witness: a pass started after a failed one has completed and has
\* visited both servers, which were online when it started.
C19_Witness ==
    \E p \in Passes :
        /\ hist.retry[p] /\ pass[p].pc = "done"
        /\ \A s \in Servers : pass[p].start[s] = "online" /\ pass[p].seen[s] # NoStatus

\* C20: a failure of the cache never turns a summary request into an
\* error: a request answered at once (before any store query) is answered
\* 200, and a request that has computed its summary from the store answers
\* 200 with that summary whether or not the cache can be written.
C20_CacheIsAdvisory ==
    [][/\ ( /\ budget'[2] < budget[2] /\ ~hist'.denied /\ SameRequests
            /\ resp'.op = "summary" ) => resp'.status = 200
       /\ \A r \in Requests :
             (req[r].pc = "set" /\ req'[r].pc = "idle")
                 => (resp'.status = 200 /\ resp'.body = req[r].summary)]_vars

\* C21: an alert that is acknowledged stays acknowledged in every later
\* state, and no step changes the severity or the server_id of an alert row
\* or deletes one.
C21_AcknowledgedForGood ==
    [][/\ Len(alerts') >= Len(alerts)
       /\ \A i \in AlertIds :
             /\ alerts[i].acknowledged => alerts'[i].acknowledged
             /\ alerts'[i].severity = alerts[i].severity
             /\ alerts'[i].server_id = alerts[i].server_id
             /\ alerts'[i].by = alerts[i].by]_vars

\* C21 witness: an alert was acknowledged after time had passed, and the
\* health check has inserted another alert.
C21_Witness ==
    /\ resp.op = "acknowledge" /\ resp.status = 200 /\ resp.id \in AlertIds
    /\ alerts[resp.id].acknowledged
    /\ alerts[resp.id].acknowledged_at > 0
    /\ \E i \in AlertIds : i # resp.id /\ alerts[i].by = "sampler"

\* The commands of update_code, deploy_services, run_migrations,
\* run_smoke_tests and cleanup: the steps after backup_current_state
AfterBackup ==
    UNION {{Commands(Functions[f])[k] : k \in 1..Len(Commands(Functions[f]))} : f \in 3..7}

\* C22: when a step of the deployment after backup_current_state fails, the
\* script has stopped the services, restored the postgres volume from the
\* backup of this run and started the services again by the time it exits,
\* and it exits with a non-zero status.
C22_RollbackOnFailure ==
    (deploy.exit # NULL /\ deploy.failed \in AfterBackup) =>
        /\ deploy.exit # 0
        /\ deploy.restored /\ deploy.volume = "restored"
        /\ deploy.services = "restarted"

\* C23: once a pass of the health check has written offline for a server,
\* no later step writes online for it, also when two passes overlap and one
\* of them selected the server as online before the other set it offline.
C23_OfflineIsNeverSetOnline ==
    [][\A s \in Servers :
          (hist.phase[s] = "down" /\ servers[s].status = "offline")
              => servers'[s].status = "offline"]_vars

\* A step in which summary request r, its store queries done, builds its
\* summary and sets the gauge
GaugeStep(r) == req[r].pc = "metrics" /\ req'[r].pc = "set"

\* C24 as claimed: the gauge changes only in a summary request that missed
\* the cache, and whenever a summary has just been written to the cache the
\* gauge holds the counts of that summary.
C24_GaugeEqualsCachedSummary ==
    [][/\ activeAlerts' # activeAlerts => \E r \in Requests : GaugeStep(r)
       /\ (cache'.value # cache.value /\ cache'.value # NoSummary)
             => activeAlerts' = cache'.value.alerts]_vars

\* C24 as amended: the gauge changes only in a summary request that missed
\* the cache, after its store queries and before its cache write; that step
\* sets it to the counts of the summary the request has computed, which is
\* the summary the request writes to the cache afterwards if it writes one.
C24_GaugeSetFromComputedSummary ==
    [][\A r \in Requests :
          /\ activeAlerts' # activeAlerts => \E q \in Requests : GaugeStep(q)
          /\ GaugeStep(r) =>
                /\ activeAlerts' = req[r].summary.alerts
                /\ req'[r].summary = req[r].summary /\ cache' = cache
          /\ (req[r].pc = "set" /\ req'[r].pc = "set") => req'[r].summary = req[r].summary
          /\ (req[r].pc = "set" /\ cache'.value # cache.value /\ cache'.value # NoSummary)
                => \E q \in Requests : req[q].pc = "set" /\ cache'.value = req[q].summary]_vars

\* C24 witness: the gauge was set by one request and the cache written by
\* another one, so the gauge holds neither the counts of the cached summary
\* nor, an alert having been acknowledged, those of the store.
C24_Witness ==
    /\ cache.value # NoSummary
    /\ activeAlerts # cache.value.alerts
    /\ ~Matches(activeAlerts, alerts)
    /\ \A r \in Requests : ~Busy(r)

====
